---------------------------- MODULE Spec2Model ----------------------------
(***************************************************************************)
(* Model of two parts of the corteza-js library:                           *)
(*                                                                         *)
(*  - src/corredor/helpers/messaging.ts: MessagingHelper (sendMessage,     *)
(*    directChannel, saveChannel, findChannelByID, resolveChannel), run    *)
(*    as one asynchronous call whose suspension points are its awaits      *)
(*    and the remote API calls (specification SpecMessaging);              *)
(*                                                                         *)
(*  - src/compose/types/{page,namespace,module-field}.ts: the apply()      *)
(*    hydration of Page, Namespace and ModuleField from raw objects, with  *)
(*    a heap of the objects a raw input and an entity can share            *)
(*    (specification SpecCompose).                                         *)
(***************************************************************************)
EXTENDS Integers, Sequences, FiniteSets, TLC

VARIABLES
  \* ---- messaging ----
  call,      \* the entry point invoked and its arguments
  ctx,       \* MessagingContext: $authUser, $channel
  exists,    \* the channels the remote channelRead finds
  pc,        \* position of the running call
  args,      \* resolveChannel: the ...args of the current invocation
  idx,       \* resolveChannel: position of the for-of loop in args
  depth,     \* resolveChannel: 0 for the outer invocation, 1 for the recursive one
  c,         \* resolveChannel: the loop variable after `c = await c`
  dc,        \* directChannel: its parameters first, second
  saveCh,    \* saveChannel: its parameter channel
  m,         \* sendMessage: the local Message m
  resolved,  \* sendMessage: the channel the .then callback receives
  awaited,   \* indices of the outer args that were awaited
  apiCalls,  \* the remote API calls made so far, in order
  result,    \* the promise the entry point returned
  \* ---- compose ----
  ent,       \* the entity: its type and its fields
  heap,      \* the objects and arrays that raw inputs and entities refer to
  raw,       \* the raw object last handed to apply (the caller still holds it)
  pre,       \* what the entity looked like before the last operation
  thrown,    \* the error the last apply threw ("" when it returned)
  lastOp,    \* the last operation: "new", "apply", "reapply" or "mutate"
  applies    \* number of apply calls made

msgVars == <<call, ctx, exists, pc, args, idx, depth, c, dc, saveCh, m,
             resolved, awaited, apiCalls, result>>

cmpVars == <<ent, heap, raw, pre, thrown, lastOp, applies>>

vars == <<msgVars, cmpVars>>

--------------------------------------------------------------------------
(* Values                                                                  *)

\* Identifiers used for channels and users (digit strings).
IDs == {"101", "202"}

\* NoID, the "unsaved" sentinel of cast.
NoID == "0"

\* Longest argument list given to resolveChannel.
MaxArgs == 2

\* A JavaScript value as the helper distinguishes it:
\*   t = "falsy"   undefined
\*       "idstr"   a string of digits (id)
\*       "handle"  any other non-empty string
\*       "number"  a truthy value that is neither a string nor an object
\*       "channel" a Channel instance with channelID id
\*       "user"    a User instance with userID id
\*       "object"  a plain object; sub/id describe its channelID property
\*       "none"    no value (parameter not in use)
\* pending: the value is handed over as a promise that fulfils with it.
V(t, id, sub) == [t |-> t, id |-> id, sub |-> sub, pending |-> FALSE]

Undefined == V("falsy", "undefined", "")

None == V("none", "", "")

Pending(v) == [v EXCEPT !.pending = TRUE]

Settled(v) == [v EXCEPT !.pending = FALSE]

PlainValues ==
  {Undefined, V("handle", "general", ""), V("number", "42", "")}
    \cup {V("idstr", i, "") : i \in IDs}
    \cup {V("channel", i, "") : i \in IDs}
    \cup {V("user", i, "") : i \in IDs}
    \cup {V("object", "undefined", "falsy"), V("object", "general", "handle")}
    \cup {V("object", i, "idstr") : i \in IDs}

Candidates == PlainValues \cup {Pending(v) : v \in PlainValues}

SeqsUpTo(S, n) == UNION {[1..k -> S] : k \in 0..n}

\* The message parameter of sendMessage: a string, or a Message object
\* that carries a channelID of its own.
Messages ==
  {[t |-> "string", channelID |-> "undefined"]}
    \cup {[t |-> "Message", channelID |-> i] : i \in IDs \cup {NoID}}

NoMessage == [t |-> "none", channelID |-> "undefined"]

--------------------------------------------------------------------------
(* Helpers imported by messaging.ts                                        *)

\* cast.IsCortezaID: the identifier-shape test on a string.
IsCortezaID(v) == v.t = "idstr"

\* shared.extractID(value, key): the identifier held by value itself or by
\* value[key]; throws when there is none.
extractID(v, key) ==
  CASE v.t = "idstr" -> [ok |-> TRUE, id |-> v.id]
    [] v.t = "user" /\ key = "userID" -> [ok |-> TRUE, id |-> v.id]
    [] v.t = "channel" /\ key = "channelID" -> [ok |-> TRUE, id |-> v.id]
    [] v.t = "object" /\ key = "channelID" /\ v.sub = "idstr" ->
         [ok |-> TRUE, id |-> v.id]
    [] OTHER -> [ok |-> FALSE, id |-> "undefined"]

\* shared.isFresh(ID): no identifier, or the sentinel.
isFresh(id) == id = "undefined" \/ id = NoID

\* shared.kv(a): the own properties of a as a key/value payload; only the
\* channelID entry is kept here.  A string has no channelID property.
kv(message) ==
  IF message.t = "Message" THEN [channelID |-> message.channelID]
  ELSE [channelID |-> "undefined"]

ApiCall(api, id) == [api |-> api, id |-> id]

--------------------------------------------------------------------------
(* Promise results                                                         *)

PendingResult == [status |-> "pending", err |-> "", channelID |-> ""]

Fulfilled(id) == [status |-> "fulfilled", err |-> "", channelID |-> id]

Rejected(err) == [status |-> "rejected", err |-> err, channelID |-> ""]

ErrSelf == "can not send message to self"

ErrGeneric == "unexpected input type for channel resolver"

ErrExtract == "unexpected value type"

ErrChannelRead == "channelRead failed"

ErrChannelCreate == "channelCreate failed"

ErrChannelUpdate == "channelUpdate failed"

ErrMessageCreate == "messageCreate failed"

--------------------------------------------------------------------------
(* Init: one call of one entry point, not yet started                      *)

Contexts ==
  [authUser : {Undefined} \cup {V("user", i, "") : i \in IDs},
   channel : {Undefined} \cup {V("channel", i, "") : i \in IDs}]

Users == {V("user", i, "") : i \in IDs} \cup {V("idstr", i, "") : i \in IDs}

Calls ==
  {[op |-> "resolveChannel", args |-> a, message |-> NoMessage,
    first |-> None, second |-> None, channelID |-> ""] :
      a \in SeqsUpTo(Candidates, MaxArgs)}
  \cup
  {[op |-> "sendMessage", args |-> <<ch>>, message |-> msg,
    first |-> None, second |-> None, channelID |-> ""] :
      ch \in PlainValues, msg \in Messages}
  \cup
  {[op |-> "directChannel", args |-> <<>>, message |-> NoMessage,
    first |-> f, second |-> s, channelID |-> ""] :
      f \in Users \cup {V("handle", "general", "")},
      s \in Users \cup {Undefined}}
  \cup
  {[op |-> "saveChannel", args |-> <<>>, message |-> NoMessage,
    first |-> None, second |-> None, channelID |-> i] :
      i \in IDs \cup {NoID, "undefined"}}

\* resolveChannel and saveChannel read neither $authUser nor $channel: one
\* context stands for all of them there.
ContextsOf(o) ==
  IF o \in {"sendMessage", "directChannel"} THEN Contexts
  ELSE {[authUser |-> Undefined, channel |-> Undefined]}

\* The compose part at rest while a messaging call runs.
EmptyObj == [k \in {} |-> ""]

IdleCompose ==
  /\ ent = [type |-> "none", f |-> EmptyObj]
  /\ heap = <<>>
  /\ raw = EmptyObj
  /\ pre = EmptyObj
  /\ thrown = ""
  /\ lastOp = "idle"
  /\ applies = 0

InitMessaging ==
  /\ call \in Calls
  /\ ctx \in ContextsOf(call.op)
  /\ exists \in SUBSET IDs
  /\ pc = call.op
  /\ args = IF call.op = "resolveChannel" THEN call.args ELSE <<>>
  /\ idx = 1
  /\ depth = 0
  /\ c = None
  /\ dc = [first |-> call.first, second |-> call.second]
  /\ saveCh = [channelID |-> call.channelID]
  /\ m = NoMessage
  /\ resolved = ""
  /\ awaited = {}
  /\ apiCalls = <<>>
  /\ result = PendingResult
  /\ IdleCompose

--------------------------------------------------------------------------
(* Completion of the call: the promise returned by the entry point settles *)

Finish(r) ==
  /\ pc' = "done"
  /\ result' = r

\* Enter resolveChannel(...a) from its first candidate.
EnterResolve(a) ==
  /\ pc' = "resolveChannel"
  /\ args' = a
  /\ idx' = 1
  /\ depth' = 0

--------------------------------------------------------------------------
(* sendMessage, lines 58-76                                                *)

\* Lines 59-63: a User is turned into a direct channel first; anything else
\* goes to resolveChannel(ch, this.$channel).
SendMessage ==
  /\ pc = "sendMessage"
  /\ LET ch == call.args[1] IN
       IF ch.t = "user"
       THEN /\ pc' = "directChannel"
            /\ dc' = [first |-> ch, second |-> Undefined]
            /\ UNCHANGED <<args, idx, depth>>
       ELSE /\ EnterResolve(<<ch, ctx.channel>>)
            /\ UNCHANGED dc
  /\ UNCHANGED <<call, ctx, exists, c, saveCh, m, resolved, awaited,
                 apiCalls, result>>
  /\ UNCHANGED cmpVars

\* Lines 63-75, the .then callback: m is built and given the channelID of
\* the resolved channel; the payload handed to messageCreate is kv(message).
SendMessageThen ==
  /\ pc = "then"
  /\ m' = [t |-> "Message", channelID |-> resolved]
  /\ apiCalls' = Append(apiCalls, ApiCall("messageCreate", kv(call.message).channelID))
  /\ pc' = "messageCreate"
  /\ UNCHANGED <<call, ctx, exists, args, idx, depth, c, dc, saveCh,
                 resolved, awaited, result>>
  /\ UNCHANGED cmpVars

MessageCreateOK ==
  /\ pc = "messageCreate"
  /\ Finish(Fulfilled(apiCalls[Len(apiCalls)].id))
  /\ UNCHANGED <<call, ctx, exists, args, idx, depth, c, dc, saveCh, m,
                 resolved, awaited, apiCalls>>
  /\ UNCHANGED cmpVars

MessageCreateFail ==
  /\ pc = "messageCreate"
  /\ Finish(Rejected(ErrMessageCreate))
  /\ UNCHANGED <<call, ctx, exists, args, idx, depth, c, dc, saveCh, m,
                 resolved, awaited, apiCalls>>
  /\ UNCHANGED cmpVars

--------------------------------------------------------------------------
(* directChannel, lines 114-128                                            *)

\* The parameter default `second = this.$authUser` (line 114).
SecondOf(d) == IF d.second = Undefined THEN ctx.authUser ELSE d.second

\* DirectChannel without the comparison of line 118.
DirectChannel_noSelfTest ==
  /\ pc = "directChannel"
  /\ LET firstUserID == extractID(dc.first, "userID")
         secondUserID == extractID(SecondOf(dc), "userID")
     IN  IF ~firstUserID.ok \/ ~secondUserID.ok
         THEN /\ Finish(Rejected(ErrExtract))
              /\ UNCHANGED saveCh
         ELSE /\ pc' = "saveChannel"
              /\ saveCh' = [channelID |-> "undefined"]
              /\ UNCHANGED result
  /\ UNCHANGED <<call, ctx, exists, args, idx, depth, c, dc, m, resolved,
                 awaited, apiCalls>>
  /\ UNCHANGED cmpVars

DirectChannel ==
  /\ pc = "directChannel"
  /\ LET firstUserID == extractID(dc.first, "userID")
         secondUserID == extractID(SecondOf(dc), "userID")
     IN  IF ~firstUserID.ok \/ ~secondUserID.ok
         THEN /\ Finish(Rejected(ErrExtract))
              /\ UNCHANGED saveCh
         ELSE IF firstUserID.id = secondUserID.id
         THEN /\ Finish(Rejected(ErrSelf))
              /\ UNCHANGED saveCh
         ELSE /\ pc' = "saveChannel"
              /\ saveCh' = [channelID |-> "undefined"]
              /\ UNCHANGED result
  /\ UNCHANGED <<call, ctx, exists, args, idx, depth, c, dc, m, resolved,
                 awaited, apiCalls>>
  /\ UNCHANGED cmpVars

--------------------------------------------------------------------------
(* saveChannel, lines 143-151                                              *)

SaveChannel ==
  /\ pc = "saveChannel"
  /\ IF isFresh(saveCh.channelID)
     THEN /\ apiCalls' = Append(apiCalls, ApiCall("channelCreate", saveCh.channelID))
          /\ pc' = "channelCreate"
     ELSE /\ apiCalls' = Append(apiCalls, ApiCall("channelUpdate", saveCh.channelID))
          /\ pc' = "channelUpdate"
  /\ UNCHANGED <<call, ctx, exists, args, idx, depth, c, dc, saveCh, m,
                 resolved, awaited, result>>
  /\ UNCHANGED cmpVars

\* saveChannel fulfilled with new Channel(channel): the caller is either the
\* script (line 143) or sendMessage (line 60), which goes on to line 63.
SaveChannelReturns(id) ==
  IF call.op = "sendMessage"
  THEN /\ EnterResolve(<<V("channel", id, ""), ctx.channel>>)
       /\ UNCHANGED result
  ELSE /\ Finish(Fulfilled(id))
       /\ UNCHANGED <<args, idx, depth>>

ChannelCreateOK ==
  /\ pc = "channelCreate"
  /\ \E id \in IDs : SaveChannelReturns(id)
  /\ UNCHANGED <<call, ctx, exists, c, dc, saveCh, m, resolved, awaited,
                 apiCalls>>
  /\ UNCHANGED cmpVars

ChannelCreateFail ==
  /\ pc = "channelCreate"
  /\ Finish(Rejected(ErrChannelCreate))
  /\ UNCHANGED <<call, ctx, exists, args, idx, depth, c, dc, saveCh, m,
                 resolved, awaited, apiCalls>>
  /\ UNCHANGED cmpVars

ChannelUpdateOK ==
  /\ pc = "channelUpdate"
  /\ SaveChannelReturns(saveCh.channelID)
  /\ UNCHANGED <<call, ctx, exists, c, dc, saveCh, m, resolved, awaited,
                 apiCalls>>
  /\ UNCHANGED cmpVars

ChannelUpdateFail ==
  /\ pc = "channelUpdate"
  /\ Finish(Rejected(ErrChannelUpdate))
  /\ UNCHANGED <<call, ctx, exists, args, idx, depth, c, dc, saveCh, m,
                 resolved, awaited, apiCalls>>
  /\ UNCHANGED cmpVars

--------------------------------------------------------------------------
(* resolveChannel, lines 182-215                                           *)

\* The channelID property read off an object that is no Channel (lines
\* 208-210): a string, or undefined when the object has none.
ChannelIDOf(v) ==
  IF v.t = "object" THEN V(v.sub, v.id, "")
  ELSE IF v.t = "channel" THEN V("idstr", v.id, "")
  ELSE Undefined

\* Branch without the `instanceof Channel` test of line 202: a Channel is
\* handled like any other object.
Branch_noInstanceTest(v) ==
  IF v.t = "falsy" THEN "continue"
  ELSE IF v.t \in {"idstr", "handle"} /\ IsCortezaID(v) THEN "findChannelByID"
  ELSE IF v.t \notin {"channel", "user", "object"} THEN "continue"
  ELSE "recurse"

\* What one iteration of the loop does with the awaited candidate
\* (lines 187-211).
Branch(v) ==
  IF v.t = "falsy" THEN "continue"
  ELSE IF v.t \in {"idstr", "handle"} /\ IsCortezaID(v) THEN "findChannelByID"
  ELSE IF v.t \notin {"channel", "user", "object"} THEN "continue"
  ELSE IF v.t = "channel" THEN "return"
  ELSE "recurse"

\* resolveChannel settled with a channel: the caller is either the script
\* or sendMessage's .then (line 63).
ResolvedTo(id) ==
  IF call.op = "sendMessage"
  THEN /\ pc' = "then"
       /\ resolved' = id
       /\ UNCHANGED result
  ELSE /\ Finish(Fulfilled(id))
       /\ UNCHANGED resolved

\* Line 185: c = await c.
ResolveAwait ==
  /\ pc = "resolveChannel"
  /\ idx <= Len(args)
  /\ c' = Settled(args[idx])
  /\ awaited' = IF depth = 0 THEN awaited \cup {idx} ELSE awaited
  /\ pc' = "inspect"
  /\ UNCHANGED <<call, ctx, exists, args, idx, depth, dc, saveCh, m,
                 resolved, apiCalls, result>>
  /\ UNCHANGED cmpVars

\* Lines 187-211.
ResolveInspect ==
  /\ pc = "inspect"
  /\ LET b == Branch(c) IN
       CASE b = "continue" ->
              /\ idx' = idx + 1
              /\ pc' = "resolveChannel"
              /\ UNCHANGED <<args, depth, apiCalls, resolved, result>>
         [] b = "findChannelByID" ->
              /\ apiCalls' = Append(apiCalls,
                                    ApiCall("channelRead", extractID(c, "channelID").id))
              /\ pc' = "channelRead"
              /\ UNCHANGED <<args, idx, depth, resolved, result>>
         [] b = "return" ->
              /\ ResolvedTo(c.id)
              /\ UNCHANGED <<args, idx, depth, apiCalls>>
         [] b = "recurse" ->
              /\ args' = <<ChannelIDOf(c)>>
              /\ idx' = 1
              /\ depth' = depth + 1
              /\ pc' = "resolveChannel"
              /\ UNCHANGED <<apiCalls, resolved, result>>
  /\ UNCHANGED <<call, ctx, exists, c, dc, saveCh, m, awaited>>
  /\ UNCHANGED cmpVars

\* Line 214: the loop ran out of candidates.
ResolveExhausted ==
  /\ pc = "resolveChannel"
  /\ idx > Len(args)
  /\ Finish(Rejected(ErrGeneric))
  /\ UNCHANGED <<call, ctx, exists, args, idx, depth, c, dc, saveCh, m,
                 resolved, awaited, apiCalls>>
  /\ UNCHANGED cmpVars

\* findChannelByID, lines 103-106: channelRead answers.
ChannelReadOK ==
  /\ pc = "channelRead"
  /\ apiCalls[Len(apiCalls)].id \in exists
  /\ ResolvedTo(apiCalls[Len(apiCalls)].id)
  /\ UNCHANGED <<call, ctx, exists, args, idx, depth, c, dc, saveCh, m,
                 awaited, apiCalls>>
  /\ UNCHANGED cmpVars

\* ChannelReadFail that swallows the lookup error and goes on with the next
\* candidate.
ChannelReadFail_fallsThrough ==
  /\ pc = "channelRead"
  /\ apiCalls[Len(apiCalls)].id \notin exists
  /\ idx' = idx + 1
  /\ pc' = "resolveChannel"
  /\ UNCHANGED <<call, ctx, exists, args, depth, c, dc, saveCh, m,
                 resolved, awaited, apiCalls, result>>
  /\ UNCHANGED cmpVars

ChannelReadFail ==
  /\ pc = "channelRead"
  /\ apiCalls[Len(apiCalls)].id \notin exists
  /\ Finish(Rejected(ErrChannelRead))
  /\ UNCHANGED <<call, ctx, exists, args, idx, depth, c, dc, saveCh, m,
                 resolved, awaited, apiCalls>>
  /\ UNCHANGED cmpVars

NextMessaging ==
  \/ SendMessage
  \/ SendMessageThen
  \/ MessageCreateOK
  \/ MessageCreateFail
  \/ DirectChannel
  \/ SaveChannel
  \/ ChannelCreateOK
  \/ ChannelCreateFail
  \/ ChannelUpdateOK
  \/ ChannelUpdateFail
  \/ ResolveAwait
  \/ ResolveInspect
  \/ ResolveExhausted
  \/ ChannelReadOK
  \/ ChannelReadFail

SpecMessaging == InitMessaging /\ [][NextMessaging]_vars

--------------------------------------------------------------------------
(* compose/types: JavaScript values of raw objects and entity fields       *)
(*                                                                         *)
(* A string is written as itself; every other primitive starts with "#"    *)
(* ("#undefined", "#null", "#true", "#false", "#0", "#1", "#7", "#NaN",    *)
(* "#Date(..)"); a reference to an object or array on the heap is "@n".    *)

Falsy == {"#undefined", "#null", "#false", "#0", "#NaN", ""}

Truthy(v) == v \notin Falsy

\* The global String used as a coercer (page.ts:52, module-field.ts:50,
\* namespace.ts:66, iframe.ts:31).
String(v) ==
  CASE v = "#undefined" -> "undefined"
    [] v = "#null" -> "null"
    [] v = "#true" -> "true"
    [] v = "#false" -> "false"
    [] v = "#0" -> "0"
    [] v = "#1" -> "1"
    [] v = "#7" -> "7"
    [] v = "#NaN" -> "NaN"
    [] OTHER -> v

\* The global Number used as a coercer (page.ts:53, module-field.ts:51).
Number(v) ==
  CASE v \in {"#0", "#1", "#7", "#NaN"} -> v
    [] v \in {"", "0", "#false", "#null"} -> "#0"
    [] v \in {"1", "#true"} -> "#1"
    [] v = "7" -> "#7"
    [] OTHER -> "#NaN"

\* The global Boolean used as a coercer (page.ts:54, 71).
Boolean(v) == IF Truthy(v) THEN "#true" ELSE "#false"

\* cast.CortezaID: a digit string or a number becomes the identifier, any
\* other input the sentinel NoID.
CortezaID(v) ==
  CASE v \in {"1", "7"} -> v
    [] v = "#1" -> "1"
    [] v = "#7" -> "7"
    [] OTHER -> NoID

\* cast.ISO8601Date: a Date, a timestamp or an ISO-8601 string becomes a
\* Date, falsy input becomes undefined.
ISO8601Date(v) ==
  CASE v \in Falsy -> "#undefined"
    [] v \in {"#Date(7)", "#7"} -> "#Date(7)"
    [] v \in {"#Date(2020-01-01)", "2020-01-01"} -> "#Date(2020-01-01)"
    [] OTHER -> "#Date(Invalid)"

Cast(cast, v) ==
  CASE cast = "String" -> String(v)
    [] cast = "Number" -> Number(v)
    [] cast = "Boolean" -> Boolean(v)
    [] cast = "CortezaID" -> CortezaID(v)
    [] cast = "ISO8601Date" -> ISO8601Date(v)

\* cast.Apply(dst, src, cast, ...props): every prop that src holds with a
\* value other than undefined is cast and assigned; the others are left.
Apply(dst, src, cast, props) ==
  [k \in DOMAIN dst |->
     IF k \in props /\ k \in DOMAIN src /\ src[k] # "#undefined"
     THEN Cast(cast, src[k])
     ELSE dst[k]]

\* guards.IsOf(o, prop): o has an own property prop that is not undefined.
IsOf(o, prop) == prop \in DOMAIN o /\ o[prop] # "#undefined"

\* guards.AreObjectsOf(a, prop): every element of the array a IsOf prop.
AreObjectsOf(a, prop) == \A j \in 1..Len(a) : IsOf(a[j], prop)

\* Two raw objects written as one literal.
Merge(a, b) == a @@ b

--------------------------------------------------------------------------
(* The heap: objects and arrays that can be shared between a raw object    *)
(* and an entity.  heap[n] is what the object "@n" holds.                  *)

Ref(n) == "@" \o ToString(n)

IsRef(v, h) == \E n \in 1..Len(h) : Ref(n) = v

RefIdx(v, h) == CHOOSE n \in 1..Len(h) : Ref(n) = v

Deref(v, h) == IF IsRef(v, h) THEN h[RefIdx(v, h)] ELSE v

\* The fields that hold an object or an array: ModuleField.options and
\* ModuleField.defaultValue (a string or a string[]), Namespace.meta.
RefFields == {"defaultValue", "options", "meta"}

\* An entity's fields with every reference replaced by what it refers to.
View(f, h) ==
  [k \in DOMAIN f |-> IF k \in RefFields THEN Deref(f[k], h) ELSE f[k]]

--------------------------------------------------------------------------
(* Page blocks, page-block/iframe.ts                                       *)

\* The kinds registered by Registry.set (iframe.ts:35).
Registry == {"IFrame"}

ErrUnknownKind == "unknown block kind"

\* iframe.ts:12-16.
IFrameDefaults == [srcField |-> "", src |-> "", wrap |-> "Plain"]

\* PageBlockIFrame.applyOptions, iframe.ts:28-32.
applyOptions(options, o) ==
  Apply(options, o, "String", {"srcField", "src", "wrap"})

\* new PageBlockIFrame(i), iframe.ts:18-26: kind, the base class's xywh and
\* options spread from the defaults, then applyOptions(i?.options).
PageBlockIFrame(i) ==
  [kind |-> "IFrame",
   xywh |-> i.xywh,
   options |-> IF "options" \in DOMAIN i
               THEN applyOptions(IFrameDefaults, i.options)
               ELSE IFrameDefaults]

\* page-block PageBlockMaker(b): the constructor registered for b.kind,
\* called with b.  Only IFrame is registered.
PageBlockMaker(b) == PageBlockIFrame(b)

--------------------------------------------------------------------------
(* Page, page.ts                                                           *)

NoChildren == [set |-> FALSE, items |-> <<>>]

Children(items) == [set |-> TRUE, items |-> items]

\* Field initialisers, page.ts:16-38 (children is declared and not set).
PageDefaults ==
  [pageID |-> NoID, selfID |-> NoID, moduleID |-> NoID, namespaceID |-> NoID,
   title |-> "", handle |-> "", description |-> "", weight |-> "#0",
   visible |-> "#false",
   children |-> NoChildren,
   blocks |-> <<>>,
   createdAt |-> "#undefined", updatedAt |-> "#undefined",
   deletedAt |-> "#undefined",
   canUpdatePage |-> "#false", canDeletePage |-> "#false",
   canGrant |-> "#false"]

Returned(f) == [f |-> f, thrown |-> ""]

Threw(f, e) == [f |-> f, thrown |-> e]

\* page.ts:51-54.
PageScalars(this, i) ==
  Apply(Apply(Apply(Apply(this, i, "CortezaID",
                          {"pageID", "selfID", "moduleID", "namespaceID"}),
                    i, "String", {"title", "handle", "description"}),
              i, "Number", {"weight"}),
        i, "Boolean", {"visible"})

\* PageBlocks that keeps the blocks it had when the guard fails.
PageBlocks_keepsPrior(this, i) ==
  IF "blocks" \in DOMAIN i
  THEN IF AreObjectsOf(i.blocks, "kind") /\ AreObjectsOf(i.blocks, "xywh")
       THEN IF \E j \in 1..Len(i.blocks) : i.blocks[j].kind \notin Registry
            THEN Threw([this EXCEPT !.blocks = <<>>], ErrUnknownKind)
            ELSE Returned([this EXCEPT !.blocks =
                   [j \in 1..Len(i.blocks) |-> PageBlockMaker(i.blocks[j])]])
       ELSE Returned(this)
  ELSE Returned(this)

\* PageBlocks that builds a block for every well-formed element and drops
\* the others.
PageBlocks_filters(this, i) ==
  IF "blocks" \in DOMAIN i
  THEN LET good == SelectSeq(i.blocks,
                     LAMBDA b : IsOf(b, "kind") /\ IsOf(b, "xywh"))
       IN  IF \E j \in 1..Len(good) : good[j].kind \notin Registry
           THEN Threw([this EXCEPT !.blocks = <<>>], ErrUnknownKind)
           ELSE Returned([this EXCEPT !.blocks =
                  [j \in 1..Len(good) |-> PageBlockMaker(good[j])]])
  ELSE Returned(this)

\* PageBlocks that adds the new blocks to the ones the page holds.
PageBlocks_appends(this, i) ==
  IF "blocks" \in DOMAIN i
  THEN IF AreObjectsOf(i.blocks, "kind") /\ AreObjectsOf(i.blocks, "xywh")
       THEN IF \E j \in 1..Len(i.blocks) : i.blocks[j].kind \notin Registry
            THEN Threw([this EXCEPT !.blocks = <<>>], ErrUnknownKind)
            ELSE Returned([this EXCEPT !.blocks = this.blocks \o
                   [j \in 1..Len(i.blocks) |-> PageBlockMaker(i.blocks[j])]])
       ELSE Returned([this EXCEPT !.blocks = <<>>])
  ELSE Returned(this)

\* page.ts:56-61.  this.blocks is emptied first; the map assigns only when
\* both guards hold, and PageBlockMaker throws on a kind that is not
\* registered, which leaves this.blocks empty and ends apply.
PageBlocks(this, i) ==
  IF "blocks" \in DOMAIN i
  THEN IF AreObjectsOf(i.blocks, "kind") /\ AreObjectsOf(i.blocks, "xywh")
       THEN IF \E j \in 1..Len(i.blocks) : i.blocks[j].kind \notin Registry
            THEN Threw([this EXCEPT !.blocks = <<>>], ErrUnknownKind)
            ELSE Returned([this EXCEPT !.blocks =
                   [j \in 1..Len(i.blocks) |-> PageBlockMaker(i.blocks[j])]])
       ELSE Returned([this EXCEPT !.blocks = <<>>])
  ELSE Returned(this)

\* page.ts:70-75.
PageTail(this, i) ==
  Apply(Apply(this, i, "ISO8601Date", {"createdAt", "updatedAt", "deletedAt"}),
        i, "Boolean", {"canUpdatePage", "canDeletePage", "canGrant"})

\* Page.apply(i), page.ts:48-76, for an object i; apply(undefined) returns
\* at line 49 and is the constructor call without argument (InitCompose).
\* Lines 63-68: this.children is emptied first and replaced by new Page(c)
\* for every c only when the guard holds; an error thrown while a child is
\* constructed leaves this.children empty and ends apply.
RECURSIVE PageApply(_, _)
PageApply(this, i) ==
  LET b == PageBlocks(PageScalars(this, i), i)
      kids == [j \in 1..Len(i.children) |-> PageApply(PageDefaults, i.children[j])]
      ch == IF b.thrown # "" \/ "children" \notin DOMAIN i THEN b
            ELSE IF AreObjectsOf(i.children, "pageID")
            THEN IF \E j \in 1..Len(kids) : kids[j].thrown # ""
                 THEN Threw([b.f EXCEPT !.children = Children(<<>>)], ErrUnknownKind)
                 ELSE Returned([b.f EXCEPT !.children =
                        Children([j \in 1..Len(kids) |-> kids[j].f])])
            ELSE Returned([b.f EXCEPT !.children = Children(<<>>)])
  IN  IF ch.thrown # "" THEN ch ELSE Returned(PageTail(ch.f, i))

--------------------------------------------------------------------------
(* Namespace, namespace.ts                                                 *)

\* Field initialisers, namespace.ts:39-56; meta is the object o.
NamespaceDefaults(o) ==
  [namespaceID |-> NoID, name |-> "", slug |-> "", enabled |-> "#false",
   meta |-> o,
   createdAt |-> "#undefined", updatedAt |-> "#undefined",
   deletedAt |-> "#undefined",
   canCreateChart |-> "#false", canCreateModule |-> "#false",
   canCreatePage |-> "#false", canDeleteNamespace |-> "#false",
   canUpdateNamespace |-> "#false", canManageNamespace |-> "#false",
   canGrant |-> "#false"]

Result(f, h, e) == [f |-> f, heap |-> h, thrown |-> e]

\* namespace.ts:65-68.
NamespaceScalars(this, n) ==
  Apply(Apply(Apply(this, n, "CortezaID", {"namespaceID"}),
              n, "String", {"name", "slug"}),
        n, "Boolean", {"enabled"})

\* namespace.ts:74-83.
NamespaceTail(this, n) ==
  Apply(Apply(this, n, "ISO8601Date", {"createdAt", "updatedAt", "deletedAt"}),
        n, "Boolean",
        {"canCreateChart", "canCreateModule", "canCreatePage",
         "canDeleteNamespace", "canUpdateNamespace", "canManageNamespace",
         "canGrant"})

\* NamespaceMeta that resets meta to an empty object when n has none.
NamespaceMeta_resets(this, n, h) ==
  IF IsOf(n, "meta")
  THEN Result([this EXCEPT !.meta = Ref(Len(h) + 1)],
              Append(h, Deref(n.meta, h)), "")
  ELSE Result([this EXCEPT !.meta = Ref(Len(h) + 1)], Append(h, "{}"), "")

\* namespace.ts:70-72: this.meta = { ...n.meta }, a new object that holds
\* what n.meta holds.
NamespaceMeta(this, n, h) ==
  IF IsOf(n, "meta")
  THEN Result([this EXCEPT !.meta = Ref(Len(h) + 1)],
              Append(h, Deref(n.meta, h)), "")
  ELSE Result(this, h, "")

\* Namespace.apply(n), namespace.ts:62-84, for an object n.
NamespaceApply(this, n, h) ==
  LET s == NamespaceMeta(NamespaceScalars(this, n), n, h)
  IN  Result(NamespaceTail(s.f, n), s.heap, "")

--------------------------------------------------------------------------
(* ModuleField, module-field.ts                                            *)

\* Field initialisers, module-field.ts:24-40; options is the object o.
ModuleFieldDefaults(o) ==
  [fieldID |-> NoID, name |-> "", kind |-> "", label |-> "",
   defaultValue |-> "#undefined", maxLength |-> "#0",
   isRequired |-> "#false", isPrivate |-> "#false", isMulti |-> "#false",
   isSystem |-> "#false",
   options |-> o,
   canUpdateRecordValue |-> "#false", canReadRecordValue |-> "#false"]

\* module-field.ts:49-52.
ModuleFieldScalars(this, f) ==
  Apply(Apply(Apply(Apply(this, f, "CortezaID", {"fieldID"}),
                    f, "String", {"name", "label", "kind"}),
              f, "Number", {"maxLength"}),
        f, "Boolean", {"isRequired", "isPrivate", "isMulti", "isSystem"})

\* module-field.ts:54-56: the value itself is assigned, array or string.
ModuleFieldDefaultValue(this, f) ==
  IF "defaultValue" \in DOMAIN f /\ Truthy(f.defaultValue)
  THEN [this EXCEPT !.defaultValue = f.defaultValue]
  ELSE this

\* module-field.ts:58-63.
ModuleFieldPermissions(this, f) ==
  IF this.isSystem = "#true"
  THEN [this EXCEPT !.canUpdateRecordValue = "#true",
                    !.canReadRecordValue = "#true"]
  ELSE Apply(this, f, "Boolean", {"canUpdateRecordValue", "canReadRecordValue"})

\* module-field.ts:65-71: kind and options are assigned as they are.
ModuleFieldKindOptions(this, f) ==
  LET k == IF IsOf(f, "kind") THEN [this EXCEPT !.kind = f.kind] ELSE this
  IN  IF IsOf(f, "options") THEN [k EXCEPT !.options = f.options] ELSE k

\* ModuleField.apply(f), module-field.ts:46-72, for an object f.
ModuleFieldApply(this, f, h) ==
  Result(ModuleFieldKindOptions(
           ModuleFieldPermissions(
             ModuleFieldDefaultValue(ModuleFieldScalars(this, f), f), f), f),
         h, "")

--------------------------------------------------------------------------
(* Raw objects handed to apply                                             *)

\* Number of apply calls with a new raw object made on one entity.
MaxApplies == 2

\* What the objects and arrays of a raw object hold when they are made.
ObjContents == {"{a:1}", "{a:2}", "[x]", "[y]"}

\* What an object holds after the caller changed it.
Mutated(o) ==
  CASE o = "{a:1}" -> "{a:2}"
    [] o = "{a:2}" -> "{a:1}"
    [] o = "[x]" -> "[y]"
    [] o = "[y]" -> "[x]"
    [] OTHER -> "{a:1}"

RefFieldSeq == <<"defaultValue", "options", "meta">>

\* The caller builds the raw object t: each object or array in it is a new
\* object on the heap.
RECURSIVE AllocRaw(_, _, _)
AllocRaw(n, t, h) ==
  IF n > Len(RefFieldSeq) THEN [r |-> t, heap |-> h]
  ELSE LET k == RefFieldSeq[n]
       IN  IF k \in DOMAIN t /\ t[k] \in ObjContents
           THEN AllocRaw(n + 1, [t EXCEPT ![k] = Ref(Len(h) + 1)], Append(h, t[k]))
           ELSE AllocRaw(n + 1, t, h)

\* Raw page blocks (PartialPage.blocks, page.ts:8).
GoodBlock == [kind |-> "IFrame", xywh |-> "[0,0,1,1]", options |-> [src |-> "#7"]]

GoodBlock2 == [kind |-> "IFrame", xywh |-> "[1,1,2,2]"]

NoKindBlock == [xywh |-> "[0,0,1,1]"]

NoXywhBlock == [kind |-> "IFrame", xywh |-> "#undefined"]

UnknownKindBlock == [kind |-> "Chart", xywh |-> "[0,0,1,1]"]

RawBlocks ==
  {EmptyObj,
   [blocks |-> <<>>],
   [blocks |-> <<GoodBlock>>],
   [blocks |-> <<GoodBlock2, GoodBlock>>],
   [blocks |-> <<GoodBlock, NoKindBlock>>],
   [blocks |-> <<NoXywhBlock, GoodBlock>>],
   [blocks |-> <<UnknownKindBlock>>]}

\* Raw child pages (PartialPage.children, page.ts:6).
ChildA == [pageID |-> "7", title |-> "a", selfID |-> "1"]

ChildB == [pageID |-> "#1", blocks |-> <<GoodBlock>>, children |-> <<ChildA>>]

NoIdChild == [title |-> "c"]

BadBlockChild == [pageID |-> "7", blocks |-> <<UnknownKindBlock>>]

RawChildren ==
  {EmptyObj,
   [children |-> <<ChildA>>],
   [children |-> <<ChildB, ChildA>>],
   [children |-> <<ChildA, NoIdChild>>],
   [children |-> <<BadBlockChild>>]}

\* PartialPage, page.ts:5-13.
RawPageScalars ==
  {EmptyObj,
   [pageID |-> "7", selfID |-> "#1", moduleID |-> "abc", namespaceID |-> "1",
    title |-> "Home", handle |-> "#7", description |-> "#null",
    weight |-> "7", visible |-> "#1",
    createdAt |-> "2020-01-01", updatedAt |-> "#7", deletedAt |-> "#null",
    canUpdatePage |-> "#true", canDeletePage |-> "yes", canGrant |-> "#0",
    unknownField |-> "x"]}

RawPages ==
  {Merge(Merge(a, b), k) : a \in RawPageScalars, b \in RawBlocks, k \in RawChildren}

\* RawNamespace, namespace.ts:17-36.
RawNamespaceScalars ==
  {EmptyObj,
   [namespaceID |-> "7", name |-> "crm", slug |-> "#7", enabled |-> "#1",
    createdAt |-> "2020-01-01", updatedAt |-> "#7", deletedAt |-> "",
    canCreateChart |-> "#true", canCreateModule |-> "#true",
    canCreatePage |-> "#true", canDeleteNamespace |-> "#true",
    canUpdateNamespace |-> "#true", canManageNamespace |-> "#true",
    canGrant |-> "#true"],
   [name |-> "", enabled |-> "#undefined", canGrant |-> "#false",
    createdAt |-> "#7"]}

RawNamespaces ==
  {Merge(a, b) : a \in RawNamespaceScalars,
                 b \in {EmptyObj, [meta |-> "{a:1}"], [meta |-> "{a:2}"]}}

\* RawModuleField, module-field.ts:6-21.
RawModuleFieldScalars ==
  {EmptyObj,
   [fieldID |-> "7", name |-> "email", kind |-> "String", label |-> "#7",
    helpText |-> "x", maxLength |-> "7", isRequired |-> "#1",
    isPrivate |-> "#true", isMulti |-> ""]}

RawModuleFieldSystem ==
  {EmptyObj,
   [isSystem |-> "#true"],
   [isSystem |-> "#false"],
   [canUpdateRecordValue |-> "#false", canReadRecordValue |-> "#true"],
   [isSystem |-> "#true", canUpdateRecordValue |-> "#false"]}

RawModuleFieldObjects ==
  {EmptyObj,
   [defaultValue |-> "abc"],
   [defaultValue |-> "[x]"],
   [options |-> "{a:1}"],
   [defaultValue |-> "", options |-> "{a:2}"]}

RawModuleFields ==
  {Merge(Merge(a, b), o) : a \in RawModuleFieldScalars,
                           b \in RawModuleFieldSystem,
                           o \in RawModuleFieldObjects}

--------------------------------------------------------------------------
(* SpecCompose: an entity is constructed, then apply is called on it with  *)
(* raw objects, which the caller may change afterwards                     *)

\* The messaging part at rest.
IdleMessaging ==
  /\ call = [op |-> "none", args |-> <<>>, message |-> NoMessage,
             first |-> None, second |-> None, channelID |-> ""]
  /\ ctx = [authUser |-> Undefined, channel |-> Undefined]
  /\ exists = {}
  /\ pc = "idle"
  /\ args = <<>>
  /\ idx = 1
  /\ depth = 0
  /\ c = None
  /\ dc = [first |-> None, second |-> None]
  /\ saveCh = [channelID |-> ""]
  /\ m = NoMessage
  /\ resolved = ""
  /\ awaited = {}
  /\ apiCalls = <<>>
  /\ result = PendingResult

\* new Page(), new Namespace(), new ModuleField(): the field initialisers,
\* then apply(undefined), which returns at once.
InitCompose ==
  /\ IdleMessaging
  /\ \E type \in {"Page", "Namespace", "ModuleField"} :
       /\ ent = [type |-> type,
                 f |-> CASE type = "Page" -> PageDefaults
                         [] type = "Namespace" -> NamespaceDefaults(Ref(1))
                         [] type = "ModuleField" -> ModuleFieldDefaults(Ref(1))]
       /\ heap = IF type = "Page" THEN <<>> ELSE <<"{}">>
  /\ raw = EmptyObj
  /\ pre = View(ent.f, heap)
  /\ thrown = ""
  /\ lastOp = "new"
  /\ applies = 0

\* The entity after apply(r) and what the call left behind.
Applied(res, r, kind) ==
  /\ ent' = [ent EXCEPT !.f = res.f]
  /\ heap' = res.heap
  /\ raw' = r
  /\ pre' = View(ent.f, heap)
  /\ thrown' = res.thrown
  /\ lastOp' = kind

\* page.apply(i) with a raw object made for the call.
PageApplyCall ==
  /\ ent.type = "Page"
  /\ applies < MaxApplies
  /\ \E i \in RawPages :
       LET res == PageApply(ent.f, i)
       IN  Applied(Result(res.f, heap, res.thrown), i, "apply")
  /\ applies' = applies + 1
  /\ UNCHANGED msgVars

\* namespace.apply(n) with a raw object made for the call.
NamespaceApplyCall ==
  /\ ent.type = "Namespace"
  /\ applies < MaxApplies
  /\ \E t \in RawNamespaces :
       LET a == AllocRaw(1, t, heap)
       IN  Applied(NamespaceApply(ent.f, a.r, a.heap), a.r, "apply")
  /\ applies' = applies + 1
  /\ UNCHANGED msgVars

\* field.apply(f) with a raw object made for the call.
ModuleFieldApplyCall ==
  /\ ent.type = "ModuleField"
  /\ applies < MaxApplies
  /\ \E t \in RawModuleFields :
       LET a == AllocRaw(1, t, heap)
       IN  Applied(ModuleFieldApply(ent.f, a.r, a.heap), a.r, "apply")
  /\ applies' = applies + 1
  /\ UNCHANGED msgVars

\* apply(r) called once more with the raw object of the call before.
ApplyAgain ==
  /\ lastOp = "apply"
  /\ Applied(CASE ent.type = "Page" ->
                    LET res == PageApply(ent.f, raw)
                    IN  Result(res.f, heap, res.thrown)
               [] ent.type = "Namespace" -> NamespaceApply(ent.f, raw, heap)
               [] ent.type = "ModuleField" -> ModuleFieldApply(ent.f, raw, heap),
             raw, "reapply")
  /\ UNCHANGED applies
  /\ UNCHANGED msgVars

\* The caller changes an object or array of the raw object it still holds.
MutateRaw ==
  /\ lastOp \in {"apply", "reapply", "mutate"}
  /\ \E k \in DOMAIN raw \cap RefFields :
       /\ IsRef(raw[k], heap)
       /\ heap' = [heap EXCEPT ![RefIdx(raw[k], heap)] = Mutated(@)]
  /\ pre' = View(ent.f, heap)
  /\ thrown' = ""
  /\ lastOp' = "mutate"
  /\ UNCHANGED <<ent, raw, applies>>
  /\ UNCHANGED msgVars

NextCompose ==
  \/ PageApplyCall
  \/ NamespaceApplyCall
  \/ ModuleFieldApplyCall
  \/ ApplyAgain
  \/ MutateRaw

SpecCompose == InitCompose /\ [][NextCompose]_vars

--------------------------------------------------------------------------
(* Properties of the messaging helper                                      *)

\* A candidate that resolves on its own: a Channel instance, an ID-shaped
\* string whose lookup succeeds, or a plain object whose channelID is such
\* a string.
Resolves(v) ==
  \/ v.t = "channel"
  \/ v.t = "idstr" /\ v.id \in exists
  \/ v.t = "object" /\ v.sub = "idstr" /\ v.id \in exists

\* A candidate that carries an ID-shaped string, directly or as channelID.
CarriesID(v) == v.t = "idstr" \/ (v.t = "object" /\ v.sub = "idstr")

\* A candidate the loop passes over with `continue`.
PassedOver(v) == v.t \in {"falsy", "handle", "number"}

\* A candidate that does not resolve, in the sense of claim C2.
Unresolvable(v) ==
  \/ PassedOver(v)
  \/ v.t = "object" /\ v.sub \in {"falsy", "handle"}

\* The remote calls resolving candidate v alone makes.
ReadsFor(v) ==
  IF v.t = "channel" THEN <<>> ELSE <<ApiCall("channelRead", v.id)>>

ResolveDone == pc = "done" /\ call.op = "resolveChannel"

\* C1: resolveChannel is first-wins.  When every candidate resolves on its
\* own, the call is fulfilled with the channel of the first candidate (the
\* result of resolveChannel(A) alone, the one-candidate case), no candidate
\* after the first is ever awaited and no remote call is made for it.
C1_FirstWins ==
  (/\ call.op = "resolveChannel"
   /\ Len(call.args) >= 1
   /\ \A i \in 1..Len(call.args) : Resolves(call.args[i]))
  => /\ awaited \subseteq {1}
     /\ Len(apiCalls) <= Len(ReadsFor(call.args[1]))
     /\ \A i \in 1..Len(apiCalls) : apiCalls[i] = ReadsFor(call.args[1])[i]
     /\ pc = "done" =>
          /\ result = Fulfilled(call.args[1].id)
          /\ awaited = {1}
          /\ apiCalls = ReadsFor(call.args[1])

\* C1 witness: two candidates that resolve to different channels, the call
\* finished with the first one.
C1_Witness ==
  /\ ResolveDone
  /\ Len(call.args) = 2
  /\ Resolves(call.args[1]) /\ Resolves(call.args[2])
  /\ call.args[1].id # call.args[2].id
  /\ call.args[1].t = "object"
  /\ result = Fulfilled(call.args[1].id)

\* C2: resolveChannel rejects with the generic error exactly when no
\* candidate resolves: a list of unresolvable candidates ends in the generic
\* rejection, and the generic rejection comes only after every candidate of
\* the list was tried and none of them resolves.
C2_GenericIffExhausted ==
  ResolveDone =>
    /\ (\A i \in 1..Len(call.args) : Unresolvable(call.args[i]))
         => result = Rejected(ErrGeneric)
    /\ result = Rejected(ErrGeneric)
         => /\ awaited = 1..Len(call.args)
            /\ \A i \in 1..Len(call.args) : ~Resolves(call.args[i])

SelfCase ==
  /\ dc.first.t # "none"
  /\ extractID(dc.first, "userID").ok
  /\ extractID(SecondOf(dc), "userID").ok
  /\ extractID(dc.first, "userID").id = extractID(SecondOf(dc), "userID").id

\* C4: directChannel between a user and the same user rejects with 'can not
\* send message to self' and makes no remote call, also when sendMessage
\* called it.
C4_SelfRejected ==
  SelfCase =>
    /\ apiCalls = <<>>
    /\ pc \in {"directChannel", "done"}
    /\ pc = "done" => result = Rejected(ErrSelf)

\* C4 witness: sendMessage(message, u) with u the authenticated user.
C4_Witness ==
  /\ pc = "done"
  /\ call.op = "sendMessage"
  /\ call.args[1] = ctx.authUser
  /\ SelfCase
  /\ result = Rejected(ErrSelf)

\* C10: the payload sendMessage hands to messageCreate carries the
\* channelID of the resolved channel, and messageCreate is not called when
\* the resolution rejects.
C10_PayloadHasResolvedChannel ==
  \A i \in 1..Len(apiCalls) :
    apiCalls[i].api = "messageCreate"
      => /\ resolved # ""
         /\ apiCalls[i].id = resolved

--------------------------------------------------------------------------
(* Properties of apply                                                     *)

\* The entity as it is now, references followed.
Cur == View(ent.f, heap)

\* The last operation was an apply call with the raw object raw.
WasApply == lastOp \in {"apply", "reapply"}

BlocksGuardFails ==
  /\ "blocks" \in DOMAIN raw
  /\ ~(AreObjectsOf(raw.blocks, "kind") /\ AreObjectsOf(raw.blocks, "xywh"))

ChildrenGuardFails ==
  /\ "children" \in DOMAIN raw
  /\ ~AreObjectsOf(raw.children, "pageID")

\* i.blocks passes the guard and holds a block of a kind that is not
\* registered: PageBlockMaker throws and apply ends at line 59.
BlocksThrow ==
  /\ "blocks" \in DOMAIN raw
  /\ ~BlocksGuardFails
  /\ \E j \in 1..Len(raw.blocks) : raw.blocks[j].kind \notin Registry

\* C5 as stated: apply(r) leaves every field of the entity that r does not
\* hold unchanged.
C5_AbsentFieldsUnchanged ==
  WasApply => \A k \in DOMAIN ent.f \ DOMAIN raw : Cur[k] = pre[k]

\* C5 amended: apply(r) leaves every field of the entity that r does not
\* hold unchanged, except canUpdateRecordValue and canReadRecordValue of a
\* ModuleField, which are true after every apply that leaves isSystem true.
C5_AbsentFieldsUnchangedButSystem ==
  WasApply =>
    \A k \in DOMAIN ent.f \ DOMAIN raw :
      \/ Cur[k] = pre[k]
      \/ /\ ent.type = "ModuleField"
         /\ k \in {"canUpdateRecordValue", "canReadRecordValue"}
         /\ Cur.isSystem = "#true"
         /\ Cur[k] = "#true"

\* C5 witness: a second apply on a ModuleField that holds options and a
\* default value from the first one and is given neither.
C5_Witness ==
  /\ lastOp = "apply"
  /\ ent.type = "ModuleField"
  /\ applies = 2
  /\ "fieldID" \in DOMAIN raw
  /\ DOMAIN raw \cap {"options", "defaultValue", "isSystem"} = {}
  /\ pre.options = "{a:2}"
  /\ Cur.options = "{a:2}"
  /\ pre.fieldID = NoID
  /\ Cur.fieldID = "7"

\* C6 as stated: when i.blocks (i.children) is present and fails the guard,
\* a page that held blocks (children) holds the same ones after the call,
\* and no error is thrown.
C6_GuardFailureKeepsCollection ==
  (WasApply /\ ent.type = "Page") =>
    /\ (BlocksGuardFails /\ pre.blocks # <<>>)
         => (Cur.blocks = pre.blocks /\ thrown = "")
    /\ (ChildrenGuardFails /\ pre.children.items # <<>>)
         => (Cur.children = pre.children /\ thrown = "")

\* C6 amended: when i.blocks (i.children) is present and fails the guard,
\* the collection is empty after the call, whatever the page held before,
\* and the failed guard throws nothing: apply throws only for a block of a
\* kind that is not registered, and when i.blocks throws so, apply ends
\* before it reaches children.
C6_GuardFailureEmptiesCollection ==
  (WasApply /\ ent.type = "Page") =>
    /\ BlocksGuardFails => Cur.blocks = <<>>
    /\ (ChildrenGuardFails /\ ~BlocksThrow) => Cur.children = Children(<<>>)
    /\ (BlocksGuardFails /\ ("children" \in DOMAIN raw => ChildrenGuardFails))
         => thrown = ""
    /\ (ChildrenGuardFails /\ ~BlocksThrow) => thrown = ""

\* C6 witness: a page that held blocks was given blocks that fail the guard.
C6_Witness ==
  /\ lastOp = "apply"
  /\ ent.type = "Page"
  /\ BlocksGuardFails
  /\ ChildrenGuardFails
  /\ pre.blocks # <<>>
  /\ pre.children.items # <<>>
  /\ Cur.blocks = <<>>
  /\ Cur.children = Children(<<>>)
  /\ thrown = ""

C8_Idempotent ==
  lastOp = "reapply" => Cur = pre

\* C8 witness: the same raw object applied twice to a page that held other
\* blocks before; the page holds the blocks the raw object describes.
C8_Witness ==
  /\ lastOp = "reapply"
  /\ ent.type = "Page"
  /\ applies = 2
  /\ "blocks" \in DOMAIN raw
  /\ Len(raw.blocks) = 2
  /\ Len(Cur.blocks) = 2
  /\ "title" \in DOMAIN raw

\* C9: the entity shares no object with the raw object it was hydrated
\* from: a change the caller makes to an object or array of the raw object
\* leaves every field of the entity as it was.
C9_NoAliasing ==
  lastOp = "mutate" => Cur = pre

=============================================================================
